---- MODULE Spec2Model ----
(***************************************************************************)
(* A model of log-manager: the process-wide id counter NEXT_LOG_ID, the    *)
(* `log` table of the SQLite store, LogManager::new / save_log / search /  *)
(* stop, and the serde_json codec of the columns.                          *)
(*                                                                         *)
(* Text is a sequence of one-character strings, so that serialization,     *)
(* parsing and the LIKE operator work on characters.                       *)
(***************************************************************************)
EXTENDS Integers, Sequences, FiniteSets, TLC

(***************************************************************************)
(* Bounds of the model.                                                    *)
(***************************************************************************)
MaxManagers == 2
MaxSaves == 2
MaxSeqSaves == 1
MaxSeqSearches == 1
MaxPage == 3
MaxPageSize == 2
MaxConcSearches == 2
MaxStops == 1

(***************************************************************************)
(* Integer widths.  LogModel.id is an i32; NEXT_LOG_ID is an AtomicU32.    *)
(* A u32 is kept as [hi, lo] with value hi * 2^31 + lo, hi \in {0, 1} and  *)
(* lo \in 0 .. I32Max, so that every number stays inside 32 signed bits.   *)
(***************************************************************************)
I32Max == 2147483647

U32(hi, lo) == [hi |-> hi, lo |-> lo]

U32Zero == U32(0, 0)

\* AtomicU32::fetch_add(1) and the `+ 1` of the seed: wrapping at 2^32.
U32Add1(c) ==
    IF c.lo = I32Max THEN U32(1 - c.hi, 0) ELSE U32(c.hi, c.lo + 1)

\* `x as i32` of a u32: the same 32 bits read as two's complement.
AsI32(c) == IF c.hi = 0 THEN c.lo ELSE (c.lo - I32Max) - 1

\* `max_id as u32` of an i32.
AsU32(i) == IF i >= 0 THEN U32(0, i) ELSE U32(1, (i + I32Max) + 1)

(***************************************************************************)
(* The codec: serde_json::to_string / from_str of the column values.       *)
(***************************************************************************)
Quote == "\""

Backslash == "\\"

RECURSIVE EscapeQuoteOnly(_)
\* Escape leaving a backslash as it is.
EscapeQuoteOnly(s) ==
    IF s = << >> THEN << >>
    ELSE LET c == Head(s)
         IN  (IF c = Quote THEN <<Backslash, c>> ELSE <<c>>)
             \o EscapeQuoteOnly(Tail(s))

RECURSIVE Escape(_)
\* serde_json's string escaping: a quote and a backslash get a backslash.
Escape(s) ==
    IF s = << >> THEN << >>
    ELSE LET c == Head(s)
         IN  (IF c = Quote \/ c = Backslash THEN <<Backslash, c>> ELSE <<c>>)
             \o Escape(Tail(s))

\* serde_json::to_string(&String): never fails.
SerializeString(s) == <<Quote>> \o Escape(s) \o <<Quote>>

RECURSIVE Unescape(_)
\* The body of a JSON string: [ok, val].  A bare quote or an unknown escape
\* is a parse error.
Unescape(s) ==
    IF s = << >> THEN [ok |-> TRUE, val |-> << >>]
    ELSE IF Head(s) = Backslash
         THEN IF Len(s) >= 2 /\ (s[2] = Quote \/ s[2] = Backslash)
              THEN LET r == Unescape(SubSeq(s, 3, Len(s)))
                   IN  [ok |-> r.ok, val |-> <<s[2]>> \o r.val]
              ELSE [ok |-> FALSE, val |-> << >>]
         ELSE IF Head(s) = Quote
              THEN [ok |-> FALSE, val |-> << >>]
              ELSE LET r == Unescape(Tail(s))
                   IN  [ok |-> r.ok, val |-> <<Head(s)>> \o r.val]

\* serde_json::from_str::<String>: [ok, val].
DeserializeString(j) ==
    IF Len(j) >= 2 /\ j[1] = Quote /\ j[Len(j)] = Quote
    THEN Unescape(SubSeq(j, 2, Len(j) - 1))
    ELSE [ok |-> FALSE, val |-> << >>]

\* The five levels of enum Level.
Levels == {"Trace", "Debug", "Info", "Warn", "Error"}

\* serde_json::to_string(&Level): the variant's name as a JSON string.
SerializeLevel(l) == <<Quote, l, Quote>>

\* serde_json::from_str::<Level>: [ok, val]; an unknown variant is an error.
DeserializeLevel(j) ==
    IF Len(j) = 3 /\ j[1] = Quote /\ j[3] = Quote /\ j[2] \in Levels
    THEN [ok |-> TRUE, val |-> j[2]]
    ELSE [ok |-> FALSE, val |-> "Trace"]

\* The caller's source type S: two unit variants that serialize, and a value
\* whose Serialize implementation fails.
GoodSources == {"SrcA", "SrcB"}

BadSource == "SrcBad"

Sources == GoodSources \cup {BadSource}

\* serde_json::to_string(&source): [ok, val].
SerializeSource(s) ==
    IF s \in GoodSources
    THEN [ok |-> TRUE, val |-> <<Quote, s, Quote>>]
    ELSE [ok |-> FALSE, val |-> << >>]

\* serde_json::from_str::<S>: [ok, val].
DeserializeSource(j) ==
    IF Len(j) = 3 /\ j[1] = Quote /\ j[3] = Quote /\ j[2] \in GoodSources
    THEN [ok |-> TRUE, val |-> j[2]]
    ELSE [ok |-> FALSE, val |-> "SrcA"]

(***************************************************************************)
(* The `log` table.  A row is a LogModel: the id and five serialized       *)
(* columns.  id is the INTEGER PRIMARY KEY, so the table is a set of rows  *)
(* with distinct ids, and a SELECT without ORDER BY scans it by rowid,     *)
(* that is in ascending id.                                                *)
(***************************************************************************)
LogModel(id, source, timestamp, level, location, content) ==
    [id |-> id, source |-> source, timestamp |-> timestamp, level |-> level,
     location |-> location, content |-> content]

\* A SimpleLog, the caller's input to save_log.
SimpleLog(timestamp, level, location, content) ==
    [timestamp |-> timestamp, level |-> level, location |-> location,
     content |-> content]

\* The fields of LogModel::from after the id: [ok, field, row].  The source is
\* the only field whose serialization can fail.
LogModelFrom(id, value, source) ==
    LET src == SerializeSource(source)
    IN  IF ~src.ok
        THEN [ok |-> FALSE, field |-> "source",
              row |-> LogModel(id, << >>, << >>, << >>, << >>, << >>)]
        ELSE [ok |-> TRUE, field |-> "",
              row |-> LogModel(id, src.val,
                               SerializeString(value.timestamp),
                               SerializeLevel(value.level),
                               SerializeString(value.location),
                               SerializeString(value.content))]

\* Log::from(LogModel): [ok, field, log]; the first field that fails to parse
\* names the error.
LogFrom(model) ==
    LET src == DeserializeSource(model.source)
        ts  == DeserializeString(model.timestamp)
        lvl == DeserializeLevel(model.level)
        loc == DeserializeString(model.location)
        cnt == DeserializeString(model.content)
        bad == IF ~src.ok THEN "source"
               ELSE IF ~ts.ok THEN "timestamp"
               ELSE IF ~lvl.ok THEN "level"
               ELSE IF ~loc.ok THEN "location"
               ELSE IF ~cnt.ok THEN "content"
               ELSE ""
    IN  [ok |-> bad = "", field |-> bad,
         log |-> [id |-> model.id, source |-> src.val, timestamp |-> ts.val,
                  level |-> lvl.val, location |-> loc.val, content |-> cnt.val]]

Ids(rows) == {r.id : r \in rows}

\* SELECT max(id): [some, val]; None on an empty table.
MaxId(rows) ==
    IF rows = {} THEN [some |-> FALSE, val |-> 0]
    ELSE [some |-> TRUE,
          val |-> CHOOSE i \in Ids(rows) : \A j \in Ids(rows) : j <= i]

\* INSERT: a row whose id is already in the table violates the primary key.
InsertConflicts(rows, row) == row.id \in Ids(rows)

RECURSIVE SortedById(_)
\* The rows of a set, in ascending id: the rowid scan.
SortedById(rows) ==
    IF rows = {} THEN << >>
    ELSE LET first == CHOOSE r \in rows : \A q \in rows : r.id <= q.id
         IN  <<first>> \o SortedById(rows \ {first})

\* SQLite's LIKE folds the case of ASCII letters.
Fold(c) == IF c = "A" THEN "a" ELSE c

RECURSIVE Like(_, _)
\* text LIKE pattern: % is any run of characters, _ is any one character,
\* there is no escape character.
Like(pattern, text) ==
    IF pattern = << >> THEN text = << >>
    ELSE IF Head(pattern) = "%"
         THEN Like(Tail(pattern), text)
              \/ (text # << >> /\ Like(pattern, Tail(text)))
         ELSE /\ text # << >>
              /\ (Head(pattern) = "_" \/ Fold(Head(pattern)) = Fold(Head(text)))
              /\ Like(Tail(pattern), Tail(text))

(***************************************************************************)
(* The boxed queries of search.  A query is a sequence of WHERE clauses;   *)
(* search builds `query` and `count_query` side by side.                   *)
(***************************************************************************)
NoText == << >>

Clause(col, op, val, vals) == [col |-> col, op |-> op, val |-> val, vals |-> vals]

\* An Option<T>: [some, val].
Some(v) == [some |-> TRUE, val |-> v]

\* The levels of the call, each serialized.
SerializedLevels(levels) == {SerializeLevel(l) : l \in levels}

\* QueryFilters with the emptiness test of the level set forgotten.
QueryFiltersAlwaysLevels(source_serialized, levels, content_search) ==
    (IF source_serialized.some
     THEN <<Clause("source", "eq", source_serialized.val, {})>> ELSE << >>)
    \o <<Clause("level", "eq_any", NoText, SerializedLevels(levels))>>
    \o (IF content_search.some
        THEN <<Clause("content", "like",
                      <<"%">> \o content_search.val \o <<"%">>, {})>>
        ELSE << >>)

\* The filters search puts on `query`.
QueryFilters(source_serialized, levels, content_search) ==
    (IF source_serialized.some
     THEN <<Clause("source", "eq", source_serialized.val, {})>> ELSE << >>)
    \o (IF levels # {}
        THEN <<Clause("level", "eq_any", NoText, SerializedLevels(levels))>>
        ELSE << >>)
    \o (IF content_search.some
        THEN <<Clause("content", "like",
                      <<"%">> \o content_search.val \o <<"%">>, {})>>
        ELSE << >>)

\* CountFilters with the level filter left off the count.
CountFiltersNoLevels(source_serialized, levels, content_search) ==
    (IF source_serialized.some
     THEN <<Clause("source", "eq", source_serialized.val, {})>> ELSE << >>)
    \o (IF content_search.some
        THEN <<Clause("content", "like",
                      <<"%">> \o content_search.val \o <<"%">>, {})>>
        ELSE << >>)

\* The filters search puts on `count_query`.
CountFilters(source_serialized, levels, content_search) ==
    (IF source_serialized.some
     THEN <<Clause("source", "eq", source_serialized.val, {})>> ELSE << >>)
    \o (IF levels # {}
        THEN <<Clause("level", "eq_any", NoText, SerializedLevels(levels))>>
        ELSE << >>)
    \o (IF content_search.some
        THEN <<Clause("content", "like",
                      <<"%">> \o content_search.val \o <<"%">>, {})>>
        ELSE << >>)

\* One WHERE clause on one row.
Satisfies(row, clause) ==
    LET column == IF clause.col = "source" THEN row.source
                  ELSE IF clause.col = "level" THEN row.level
                  ELSE row.content
    IN  IF clause.op = "eq" THEN column = clause.val
        ELSE IF clause.op = "eq_any" THEN column \in clause.vals
        ELSE Like(clause.val, column)

Selected(rows, filters) ==
    {r \in rows : \A i \in 1 .. Len(filters) : Satisfies(r, filters[i])}

\* CountStar counting the table, the filters ignored.
CountStarAllRows(rows, filters) == Cardinality(rows)

\* count_query.select(count_star()).first().
CountStar(rows, filters) == Cardinality(Selected(rows, filters))

\* The 0-based offset of a page.
PageOffset(page, page_size) == (page - 1) * page_size

\* LIMIT / OFFSET on the scanned rows.
LimitOffset(seq, limit, offset) ==
    SubSeq(seq, offset + 1,
           IF offset + limit < Len(seq) THEN offset + limit ELSE Len(seq))

\* query.load(): the selected rows in scan order, cut to the page if any.
Load(rows, filters, pagination) ==
    LET all == SortedById(Selected(rows, filters))
    IN  IF pagination.some
        THEN LimitOffset(all, pagination.val.page_size,
                         PageOffset(pagination.val.page, pagination.val.page_size))
        ELSE all

RECURSIVE HydratedUntilError(_)
\* Hydrated giving up at the first row Log::from rejects.
HydratedUntilError(models) ==
    IF models = << >> THEN << >>
    ELSE LET r == LogFrom(Head(models))
         IN  IF r.ok THEN <<r.log>> \o HydratedUntilError(Tail(models)) ELSE << >>

RECURSIVE Hydrated(_)
\* The rows that Log::from accepts, as Logs, in the order loaded.
Hydrated(models) ==
    IF models = << >> THEN << >>
    ELSE LET r == LogFrom(Head(models))
         IN  (IF r.ok THEN <<r.log>> ELSE << >>) \o Hydrated(Tail(models))

RECURSIVE HydrationErrors(_)
\* The fields that failed, one per rejected row.
HydrationErrors(models) ==
    IF models = << >> THEN << >>
    ELSE LET r == LogFrom(Head(models))
         IN  (IF r.ok THEN << >> ELSE <<r.field>>) \o HydrationErrors(Tail(models))

(***************************************************************************)
(* The state of the process.                                               *)
(***************************************************************************)
VARIABLES
    NEXT_LOG_ID,    \* the static AtomicU32 of lib.rs
    store,          \* the rows of the `log` table
    managers,       \* how many LogManagers have been constructed
    internal_lock,  \* per manager: the thread holding its Mutex, or NoThread
    stop,           \* per manager: its stop flag
    pc,             \* per thread: where it is in its current call
    call,           \* per thread: the current (or last) call and its arguments
    local,          \* per thread: the locals of the call
    ret,            \* per thread: what its last call returned
    ops,            \* how many save_log, search and stop calls were started
    history,        \* the seeds and the allocations of NEXT_LOG_ID, in order
    inserted,       \* the ids of the rows, in the order they were inserted
    startStore,     \* the rows that were durable when the process started
    unconsumed      \* the counter a save_log left when its connection failed,
                    \* until the next allocation

vars == <<NEXT_LOG_ID, store, managers, internal_lock, stop, pc, call, local,
          ret, ops, history, inserted, startStore, unconsumed>>

Threads == {"t1", "t2"}

NoThread == "none"

ManagerIds == 1 .. MaxManagers

None == [some |-> FALSE, val |-> << >>]

\* No save_log has failed to connect since the last allocation.
NoFailure == [some |-> FALSE, val |-> U32Zero]

\* Option<S>::None.
NoSource == [some |-> FALSE, val |-> "SrcA"]

NoPage == [some |-> FALSE, val |-> [page |-> 1, page_size |-> 1]]

\* Pagination::Page { page, page_size }.
Page(page, page_size) ==
    [some |-> TRUE, val |-> [page |-> page, page_size |-> page_size]]

NoLog == SimpleLog(<< >>, "Trace", << >>, << >>)

NoRow == LogModel(0, << >>, << >>, << >>, << >>, << >>)

\* The arguments of a call.  held is not an argument: it records whether the
\* manager's lock was held when a search started.
NoCall ==
    [op |-> "none", mgr |-> 0, log |-> NoLog, source |-> "SrcA",
     has_source |-> FALSE, pagination |-> NoPage, content_search |-> None,
     levels |-> {}, held |-> FALSE]

\* The locals of a call.  counted_at is not a local: it records how many rows
\* the process had inserted when the count statement of a search ran.
NoLocal ==
    [max_id |-> 0, row |-> NoRow, source_serialized |-> None, total_count |-> 0,
     counted_at |-> 0]

NoRet ==
    [op |-> "none", ok |-> TRUE, err |-> "", field |-> "", rows_affected |-> 0,
     id |-> 0, total_count |-> 0, logs |-> << >>, errors |-> << >>]

Ok(op) == [NoRet EXCEPT !.op = op]

Err(op, err, field) == [NoRet EXCEPT !.op = op, !.ok = FALSE, !.err = err, !.field = field]

\* An entry of the history: a seed (the max(id) read, the value stored) or an
\* allocation (the counter value fetched, the id it became, whether the
\* serialization that followed succeeded).
SeedEvent(max_id, ctr) ==
    [kind |-> "seed", id |-> max_id, ctr |-> ctr, ok |-> TRUE]

AllocEvent(id, ctr, ok) ==
    [kind |-> "alloc", id |-> id, ctr |-> ctr, ok |-> ok]

\* A call returns: the thread is idle again.
Return(t, r) ==
    /\ pc' = [pc EXCEPT ![t] = "idle"]
    /\ ret' = [ret EXCEPT ![t] = r]

\* Unlock forgotten: the guard outlives the call.
UnlockNever(t) == UNCHANGED internal_lock

\* The guard of save_log is dropped when the call returns.
Unlock(t) ==
    internal_lock' = [internal_lock EXCEPT ![call[t].mgr] = NoThread]

(***************************************************************************)
(* LogManager::new (through Builder::build).                               *)
(***************************************************************************)
NewCall(t) ==
    /\ pc[t] = "idle"
    /\ pc' = [pc EXCEPT ![t] = "new_connect"]
    /\ call' = [call EXCEPT ![t] = [NoCall EXCEPT !.op = "new"]]
    /\ local' = [local EXCEPT ![t] = NoLocal]
    /\ ret' = [ret EXCEPT ![t] = NoRet]
    /\ UNCHANGED <<NEXT_LOG_ID, store, managers, internal_lock, stop, ops,
                   history, inserted, startStore, unconsumed>>

\* establish_connection(&database_url)?
NewConnect(t) ==
    /\ pc[t] = "new_connect"
    /\ \/ /\ pc' = [pc EXCEPT ![t] = "new_migrate"]
          /\ UNCHANGED ret
       \/ Return(t, Err("new", "DieselConnection", ""))
    /\ UNCHANGED <<NEXT_LOG_ID, store, managers, internal_lock, stop, call,
                   local, ops, history, inserted, startStore, unconsumed>>

\* run_migrations(&mut connection, MIGRATIONS): the schema only, no row.
NewMigrate(t) ==
    /\ pc[t] = "new_migrate"
    /\ \/ /\ pc' = [pc EXCEPT ![t] = "new_max_id"]
          /\ UNCHANGED ret
       \/ Return(t, Err("new", "RunningMigrations", ""))
    /\ UNCHANGED <<NEXT_LOG_ID, store, managers, internal_lock, stop, call,
                   local, ops, history, inserted, startStore, unconsumed>>

\* NewMaxId without the sign check: a negative max(id) goes on to the seed.
NewMaxIdUnchecked(t) ==
    /\ pc[t] = "new_max_id"
    /\ LET max_id == IF MaxId(store).some THEN MaxId(store).val ELSE 0
       IN  \/ /\ pc' = [pc EXCEPT ![t] = "new_seed"]
              /\ local' = [local EXCEPT ![t].max_id = max_id]
              /\ UNCHANGED ret
           \/ /\ Return(t, Err("new", "DieselConnection", ""))
              /\ UNCHANGED local
           \/ /\ Return(t, Err("new", "DieselResult", ""))
              /\ UNCHANGED local
    /\ UNCHANGED <<NEXT_LOG_ID, store, managers, internal_lock, stop, call,
                   ops, history, inserted, startStore, unconsumed>>

\* get_next_log_id: its own connection, SELECT max(id), the sign check.
NewMaxId(t) ==
    /\ pc[t] = "new_max_id"
    /\ LET max_id == IF MaxId(store).some THEN MaxId(store).val ELSE 0
       IN  \/ /\ max_id < 0
              /\ Return(t, [Err("new", "NegativeLogID", "") EXCEPT !.id = max_id])
              /\ UNCHANGED local
           \/ /\ max_id >= 0
              /\ pc' = [pc EXCEPT ![t] = "new_seed"]
              /\ local' = [local EXCEPT ![t].max_id = max_id]
              /\ UNCHANGED ret
           \/ /\ Return(t, Err("new", "DieselConnection", ""))
              /\ UNCHANGED local
           \/ /\ Return(t, Err("new", "DieselResult", ""))
              /\ UNCHANGED local
    /\ UNCHANGED <<NEXT_LOG_ID, store, managers, internal_lock, stop, call,
                   ops, history, inserted, startStore, unconsumed>>

\* SeedValue without the + 1.
SeedValueMaxId(max_id) == AsU32(max_id)

\* The value LogManager::new stores in NEXT_LOG_ID.
SeedValue(max_id) == U32Add1(AsU32(max_id))

\* NEXT_LOG_ID.store(max_id + 1); the manager, with a fresh lock.
NewSeed(t) ==
    /\ pc[t] = "new_seed"
    /\ NEXT_LOG_ID' = SeedValue(local[t].max_id)
    /\ managers' = managers + 1
    /\ internal_lock' = [internal_lock EXCEPT ![managers + 1] = NoThread]
    /\ stop' = [stop EXCEPT ![managers + 1] = FALSE]
    /\ history' = Append(history, SeedEvent(local[t].max_id, SeedValue(local[t].max_id)))
    /\ call' = [call EXCEPT ![t].mgr = managers + 1]
    /\ Return(t, Ok("new"))
    /\ UNCHANGED <<store, local, ops, inserted, startStore, unconsumed>>

(***************************************************************************)
(* LogManager::save_log.                                                   *)
(***************************************************************************)
SaveLogCall(t, m, log, source) ==
    /\ pc[t] = "idle"
    /\ m \in 1 .. managers
    /\ pc' = [pc EXCEPT ![t] = "save_lock"]
    /\ call' = [call EXCEPT ![t] =
                   [NoCall EXCEPT !.op = "save_log", !.mgr = m, !.log = log,
                                  !.source = source, !.has_source = TRUE]]
    /\ local' = [local EXCEPT ![t] = NoLocal]
    /\ ops' = [ops EXCEPT !.saves = @ + 1]
    /\ ret' = [ret EXCEPT ![t] = NoRet]
    /\ UNCHANGED <<NEXT_LOG_ID, store, managers, internal_lock, stop,
                   history, inserted, startStore, unconsumed>>

\* SaveLogLock taking the lock without waiting for it to be free.
SaveLogLockNoWait(t) ==
    /\ pc[t] = "save_lock"
    /\ internal_lock' = [internal_lock EXCEPT ![call[t].mgr] = t]
    /\ pc' = [pc EXCEPT ![t] = "save_connect"]
    /\ UNCHANGED <<NEXT_LOG_ID, store, managers, stop, call, local, ret, ops,
                   history, inserted, startStore, unconsumed>>

\* let _guard = self.internal_lock.lock(): blocks while the lock is held.
SaveLogLock(t) ==
    /\ pc[t] = "save_lock"
    /\ internal_lock[call[t].mgr] = NoThread
    /\ internal_lock' = [internal_lock EXCEPT ![call[t].mgr] = t]
    /\ pc' = [pc EXCEPT ![t] = "save_connect"]
    /\ UNCHANGED <<NEXT_LOG_ID, store, managers, stop, call, local, ret, ops,
                   history, inserted, startStore, unconsumed>>

\* establish_connection(&self.database_url)?
SaveLogConnect(t) ==
    /\ pc[t] = "save_connect"
    /\ \/ /\ pc' = [pc EXCEPT ![t] = "save_model"]
          /\ UNCHANGED <<ret, internal_lock, unconsumed>>
       \/ /\ Return(t, Err("save_log", "DieselConnection", ""))
          /\ Unlock(t)
          /\ unconsumed' = Some(NEXT_LOG_ID)
    /\ UNCHANGED <<NEXT_LOG_ID, store, managers, stop, call, local, ops,
                   history, inserted, startStore>>

\* The id of LogModel::from: NEXT_LOG_ID.fetch_add(1, SeqCst) as i32.
AllocatedId(ctr) == AsI32(ctr)

\* LogModel::from(log, source)?: the id is fetched first, then the fields are
\* serialized; a field that fails returns from save_log.
SaveLogModel(t) ==
    /\ pc[t] = "save_model"
    /\ LET id == AllocatedId(NEXT_LOG_ID)
           m  == LogModelFrom(id, call[t].log, call[t].source)
       IN  /\ NEXT_LOG_ID' = U32Add1(NEXT_LOG_ID)
           /\ history' = Append(history, AllocEvent(id, NEXT_LOG_ID, m.ok))
           /\ local' = [local EXCEPT ![t].row = m.row]
           /\ IF m.ok
              THEN /\ pc' = [pc EXCEPT ![t] = "save_insert"]
                   /\ UNCHANGED <<ret, internal_lock>>
              ELSE /\ Return(t, [Err("save_log", "SerializingField", m.field)
                                   EXCEPT !.id = id])
                   /\ Unlock(t)
           /\ unconsumed' = NoFailure
    /\ UNCHANGED <<store, managers, stop, call, ops, inserted, startStore>>

\* SaveLogInsert as INSERT OR REPLACE: a row whose id is in the table takes
\* the place of the row that has it.
SaveLogInsertOrReplace(t) ==
    /\ pc[t] = "save_insert"
    /\ LET row == local[t].row
       IN  \/ /\ store' = {r \in store : r.id # row.id} \cup {row}
              /\ inserted' = Append(inserted, row.id)
              /\ Return(t, [Ok("save_log") EXCEPT !.rows_affected = 1, !.id = row.id])
           \/ /\ Return(t, [Err("save_log", "DieselResult", "") EXCEPT !.id = row.id])
              /\ UNCHANGED <<store, inserted>>
    /\ Unlock(t)
    /\ UNCHANGED <<NEXT_LOG_ID, managers, stop, call, local, ops, history,
                   startStore, unconsumed>>

\* insert_into(log_table::table).values(log).execute(connection), and the
\* return of save_log.
SaveLogInsert(t) ==
    /\ pc[t] = "save_insert"
    /\ LET row == local[t].row
       IN  \/ /\ ~InsertConflicts(store, row)
              /\ store' = store \cup {row}
              /\ inserted' = Append(inserted, row.id)
              /\ Return(t, [Ok("save_log") EXCEPT !.rows_affected = 1, !.id = row.id])
           \/ /\ InsertConflicts(store, row)
              /\ Return(t, [Err("save_log", "DieselResult", "UniqueViolation")
                              EXCEPT !.id = row.id])
              /\ UNCHANGED <<store, inserted>>
           \/ /\ Return(t, [Err("save_log", "DieselResult", "") EXCEPT !.id = row.id])
              /\ UNCHANGED <<store, inserted>>
    /\ Unlock(t)
    /\ UNCHANGED <<NEXT_LOG_ID, managers, stop, call, local, ops, history,
                   startStore, unconsumed>>

(***************************************************************************)
(* LogManager::search.                                                     *)
(***************************************************************************)
SearchCall(t, m, source, pagination, content_search, levels) ==
    /\ pc[t] = "idle"
    /\ m \in 1 .. managers
    /\ pc' = [pc EXCEPT ![t] = "search_connect"]
    /\ call' = [call EXCEPT ![t] =
                   [NoCall EXCEPT !.op = "search", !.mgr = m,
                                  !.source = IF source.some THEN source.val ELSE "SrcA",
                                  !.has_source = source.some,
                                  !.pagination = pagination,
                                  !.content_search = content_search,
                                  !.levels = levels,
                                  !.held = internal_lock[m] # NoThread]]
    /\ local' = [local EXCEPT ![t] = NoLocal]
    /\ ops' = [ops EXCEPT !.searches = @ + 1]
    /\ ret' = [ret EXCEPT ![t] = NoRet]
    /\ UNCHANGED <<NEXT_LOG_ID, store, managers, internal_lock, stop,
                   history, inserted, startStore, unconsumed>>

\* SearchConnect waiting, as save_log does, for the manager's lock to be free.
SearchConnectLocked(t) ==
    /\ pc[t] = "search_connect"
    /\ internal_lock[call[t].mgr] = NoThread
    /\ LET src == SerializeSource(call[t].source)
       IN  \/ /\ Return(t, Err("search", "DieselConnection", ""))
              /\ UNCHANGED local
           \/ /\ call[t].has_source /\ ~src.ok
              /\ Return(t, Err("search", "SerializingField", "source"))
              /\ UNCHANGED local
           \/ /\ call[t].has_source => src.ok
              /\ local' = [local EXCEPT ![t].source_serialized =
                              IF call[t].has_source THEN Some(src.val) ELSE None]
              /\ pc' = [pc EXCEPT ![t] = "search_count"]
              /\ UNCHANGED ret
    /\ UNCHANGED <<NEXT_LOG_ID, store, managers, internal_lock, stop, call,
                   ops, history, inserted, startStore, unconsumed>>

\* establish_connection(&self.database_url)?, then the source filter's value:
\* serialize_or_return_err!(&source, "source").
SearchConnect(t) ==
    /\ pc[t] = "search_connect"
    /\ LET src == SerializeSource(call[t].source)
       IN  \/ /\ Return(t, Err("search", "DieselConnection", ""))
              /\ UNCHANGED local
           \/ /\ call[t].has_source /\ ~src.ok
              /\ Return(t, Err("search", "SerializingField", "source"))
              /\ UNCHANGED local
           \/ /\ call[t].has_source => src.ok
              /\ local' = [local EXCEPT ![t].source_serialized =
                              IF call[t].has_source THEN Some(src.val) ELSE None]
              /\ pc' = [pc EXCEPT ![t] = "search_count"]
              /\ UNCHANGED ret
    /\ UNCHANGED <<NEXT_LOG_ID, store, managers, internal_lock, stop, call,
                   ops, history, inserted, startStore, unconsumed>>

\* count_query.select(count_star()).first::<i64>(): one statement.
SearchCount(t) ==
    /\ pc[t] = "search_count"
    /\ \/ /\ local' = [local EXCEPT ![t].total_count =
                          CountStar(store, CountFilters(local[t].source_serialized,
                                                        call[t].levels,
                                                        call[t].content_search)),
                                         ![t].counted_at = Len(inserted)]
          /\ pc' = [pc EXCEPT ![t] = "search_load"]
          /\ UNCHANGED ret
       \/ /\ Return(t, Err("search", "DieselResult", ""))
          /\ UNCHANGED local
    /\ UNCHANGED <<NEXT_LOG_ID, store, managers, internal_lock, stop, call,
                   ops, history, inserted, startStore, unconsumed>>

\* query.load::<LogModel>(): one statement; then every row through Log::from,
\* the failures collected into one warning.
SearchLoad(t) ==
    /\ pc[t] = "search_load"
    /\ LET models == Load(store, QueryFilters(local[t].source_serialized,
                                              call[t].levels,
                                              call[t].content_search),
                          call[t].pagination)
       IN  \/ Return(t, Err("search", "DieselResult", ""))
           \/ Return(t, [Ok("search") EXCEPT !.total_count = local[t].total_count,
                                             !.logs = Hydrated(models),
                                             !.errors = HydrationErrors(models)])
    /\ UNCHANGED <<NEXT_LOG_ID, store, managers, internal_lock, stop, call,
                   local, ops, history, inserted, startStore, unconsumed>>

(***************************************************************************)
(* LogManager::stop: the flag, then notify_waiters (nothing waits: the     *)
(* server task of start_server is disabled).                               *)
(***************************************************************************)
\* Stop also releasing the manager's lock, as if it cancelled the save_log in
\* flight.
StopUnlocking(t, m) ==
    /\ pc[t] = "idle"
    /\ m \in 1 .. managers
    /\ stop' = [stop EXCEPT ![m] = TRUE]
    /\ internal_lock' = [internal_lock EXCEPT ![m] = NoThread]
    /\ call' = [call EXCEPT ![t] = [NoCall EXCEPT !.op = "stop", !.mgr = m]]
    /\ ret' = [ret EXCEPT ![t] = Ok("stop")]
    /\ ops' = [ops EXCEPT !.stops = @ + 1]
    /\ UNCHANGED <<NEXT_LOG_ID, store, managers, pc, local, history, inserted,
                   startStore, unconsumed>>

Stop(t, m) ==
    /\ pc[t] = "idle"
    /\ m \in 1 .. managers
    /\ stop' = [stop EXCEPT ![m] = TRUE]
    /\ call' = [call EXCEPT ![t] = [NoCall EXCEPT !.op = "stop", !.mgr = m]]
    /\ ret' = [ret EXCEPT ![t] = Ok("stop")]
    /\ ops' = [ops EXCEPT !.stops = @ + 1]
    /\ UNCHANGED <<NEXT_LOG_ID, store, managers, internal_lock, pc, local,
                   history, inserted, startStore, unconsumed>>

(***************************************************************************)
(* Inputs, initial stores.                                                 *)
(***************************************************************************)
\* An RFC3339 timestamp and a call site stand for themselves.
Timestamp == <<"b">>

Location == <<"a", "b">>

\* A row as an earlier run of save_log left it.
StoredRow(id, source, level, content) ==
    LogModelFrom(id, SimpleLog(Timestamp, level, Location, content), source).row

\* A row whose content is not JSON (written by something else, or damaged).
CorruptRow(id, source, level) ==
    [StoredRow(id, source, level, << >>) EXCEPT !.content = <<"a">>]

\* The stores the process may start on, with two threads.
InitStores ==
    { {},
      {StoredRow(1, "SrcA", "Info", <<"a">>)},
      {StoredRow(-1, "SrcA", "Info", <<"a">>)} }

SaveInputs ==
    {[log |-> SimpleLog(Timestamp, "Info", Location, <<"a">>), source |-> s] :
        s \in {"SrcA", BadSource}}

\* The threads inside LogManager::new.
Constructing == {t \in Threads : call[t].op = "new" /\ pc[t] # "idle"}

Init ==
    /\ NEXT_LOG_ID = U32Zero
    /\ store \in InitStores
    /\ managers = 0
    /\ internal_lock = [m \in ManagerIds |-> NoThread]
    /\ stop = [m \in ManagerIds |-> FALSE]
    /\ pc = [t \in Threads |-> "idle"]
    /\ call = [t \in Threads |-> NoCall]
    /\ local = [t \in Threads |-> NoLocal]
    /\ ret = [t \in Threads |-> NoRet]
    /\ ops = [saves |-> 0, searches |-> 0, stops |-> 0]
    /\ history = << >>
    /\ inserted = << >>
    /\ startStore = store
    /\ unconsumed = NoFailure

Next ==
    \E t \in Threads :
        \/ managers + Cardinality(Constructing) < MaxManagers /\ NewCall(t)
        \/ NewConnect(t)
        \/ NewMigrate(t)
        \/ NewMaxId(t)
        \/ NewSeed(t)
        \/ \E m \in ManagerIds, in \in SaveInputs :
               ops.saves < MaxSaves /\ SaveLogCall(t, m, in.log, in.source)
        \/ SaveLogLock(t)
        \/ SaveLogConnect(t)
        \/ SaveLogModel(t)
        \/ SaveLogInsert(t)

Spec == Init /\ [][Next]_vars

(***************************************************************************)
(* One thread, one manager: save_log, search and stop one after another,   *)
(* over stores and inputs that exercise the filters, the pages and the     *)
(* rows that do not hydrate.                                               *)
(***************************************************************************)
SeqStores ==
    { {},
      {StoredRow(1, "SrcA", "Info", <<"a">>),
       StoredRow(2, "SrcA", "Debug", <<"b", "a">>),
       StoredRow(3, "SrcB", "Info", <<"A", "b">>)},
      {StoredRow(1, "SrcA", "Info", <<"a", "%", "b">>),
       CorruptRow(2, "SrcA", "Info"),
       StoredRow(3, "SrcA", "Warn", <<"_">>),
       StoredRow(5, "SrcB", "Error", <<Quote>>),
       StoredRow(6, "SrcA", "Info", <<Backslash, "b">>)},
      {CorruptRow(4, "SrcB", "Debug")},
      {StoredRow(I32Max - 1, "SrcA", "Info", <<"a">>),
       StoredRow(I32Max, "SrcA", "Info", <<"b">>)} }

SeqSaveInputs ==
    {[log |-> SimpleLog(Timestamp, l, Location, c), source |-> "SrcA"] :
        l \in {"Info", "Trace"}, c \in {<<"a", "b">>, <<"%">>}}
    \cup {[log |-> SimpleLog(Timestamp, "Info", Location, <<"a", "b">>),
           source |-> "SrcB"],
          [log |-> SimpleLog(Timestamp, "Info", Location, <<"a">>),
           source |-> BadSource]}

SearchInput(source, pagination, content_search, levels) ==
    [source |-> source, pagination |-> pagination,
     content_search |-> content_search, levels |-> levels]

SeqPaginations ==
    {NoPage} \cup {Page(p, k) : p \in 1 .. MaxPage, k \in 1 .. MaxPageSize}

SeqTerms ==
    {None, Some(<< >>), Some(<<"a">>), Some(<<"b">>), Some(<<"a", "b">>),
     Some(<<"_">>), Some(<<"%">>), Some(<<Quote>>), Some(<<Backslash>>)}

SeqLevelSets == { {}, {"Info"}, {"Info", "Debug"} }

SeqSources == {NoSource} \cup {Some(s) : s \in Sources}

\* Every source with every level set; every term and every page, alone and
\* with the other filters.
SeqSearchInputs ==
    {SearchInput(s, NoPage, None, l) : s \in SeqSources, l \in SeqLevelSets}
    \cup {SearchInput(NoSource, NoPage, c, {}) : c \in SeqTerms}
    \cup {SearchInput(Some("SrcA"), NoPage, c, {"Info"}) : c \in SeqTerms}
    \cup {SearchInput(NoSource, p, None, {}) : p \in SeqPaginations}
    \cup {SearchInput(Some("SrcA"), p, Some(<<"a">>), {"Info", "Debug"}) :
            p \in SeqPaginations}

InitSeq ==
    /\ NEXT_LOG_ID = U32Zero
    /\ store \in SeqStores
    /\ managers = 0
    /\ internal_lock = [m \in ManagerIds |-> NoThread]
    /\ stop = [m \in ManagerIds |-> FALSE]
    /\ pc = [t \in Threads |-> "idle"]
    /\ call = [t \in Threads |-> NoCall]
    /\ local = [t \in Threads |-> NoLocal]
    /\ ret = [t \in Threads |-> NoRet]
    /\ ops = [saves |-> 0, searches |-> 0, stops |-> 0]
    /\ history = << >>
    /\ inserted = << >>
    /\ startStore = store
    /\ unconsumed = NoFailure

NextSeq ==
    \E t \in {"t1"} :
        \/ managers = 0 /\ NewCall(t)
        \/ NewConnect(t)
        \/ NewMigrate(t)
        \/ NewMaxId(t)
        \/ NewSeed(t)
        \/ \E in \in SeqSaveInputs :
               ops.saves < MaxSeqSaves /\ SaveLogCall(t, 1, in.log, in.source)
        \/ SaveLogLock(t)
        \/ SaveLogConnect(t)
        \/ SaveLogModel(t)
        \/ SaveLogInsert(t)
        \/ \E in \in SeqSearchInputs :
               /\ ops.searches < MaxSeqSearches
               /\ SearchCall(t, 1, in.source, in.pagination, in.content_search,
                             in.levels)
        \/ SearchConnect(t)
        \/ SearchCount(t)
        \/ SearchLoad(t)

SpecSeq == InitSeq /\ [][NextSeq]_vars

\* The same on a store that starts empty: every row is one save_log wrote.
InitSaved == InitSeq /\ store = {}

SpecSaved == InitSaved /\ [][NextSeq]_vars

(***************************************************************************)
(* Two threads and two managers write; the searches come when the writes   *)
(* are over, so that no write is concurrent with a search or later than    *)
(* its result.                                                             *)
(***************************************************************************)
Searching == \E t \in Threads : call[t].op = "search"

PagesSearchInputs ==
    {SearchInput(NoSource, p, None, {}) : p \in SeqPaginations}

NextPages ==
    \E t \in Threads :
        \/ /\ ~Searching
           /\ managers + Cardinality(Constructing) < MaxManagers
           /\ NewCall(t)
        \/ NewConnect(t)
        \/ NewMigrate(t)
        \/ NewMaxId(t)
        \/ NewSeed(t)
        \/ \E m \in ManagerIds, in \in SaveInputs :
               /\ ~Searching
               /\ ops.saves < MaxSaves
               /\ SaveLogCall(t, m, in.log, in.source)
        \/ SaveLogLock(t)
        \/ SaveLogConnect(t)
        \/ SaveLogModel(t)
        \/ SaveLogInsert(t)
        \/ \E m \in ManagerIds, in \in PagesSearchInputs :
               /\ \A u \in Threads : pc[u] = "idle"
               /\ ops.searches < MaxSeqSearches
               /\ SearchCall(t, m, in.source, in.pagination, in.content_search,
                             in.levels)
        \/ SearchConnect(t)
        \/ SearchCount(t)
        \/ SearchLoad(t)

SpecPages == Init /\ [][NextPages]_vars

(***************************************************************************)
(* Two threads on one manager, which the first constructs: save_log,       *)
(* search and stop in any interleaving.                                    *)
(***************************************************************************)
ConcStores ==
    { {StoredRow(1, "SrcA", "Info", <<"a">>),
       StoredRow(2, "SrcB", "Debug", <<"a">>)} }

ConcSaveInputs ==
    {[log |-> SimpleLog(Timestamp, "Info", Location, <<"a">>), source |-> s] :
        s \in {"SrcA", BadSource}}

ConcSearchInputs ==
    {SearchInput(NoSource, NoPage, None, {}),
     SearchInput(Some("SrcA"), NoPage, None, {})}

InitConc ==
    /\ NEXT_LOG_ID = U32Zero
    /\ store \in ConcStores
    /\ managers = 0
    /\ internal_lock = [m \in ManagerIds |-> NoThread]
    /\ stop = [m \in ManagerIds |-> FALSE]
    /\ pc = [t \in Threads |-> "idle"]
    /\ call = [t \in Threads |-> NoCall]
    /\ local = [t \in Threads |-> NoLocal]
    /\ ret = [t \in Threads |-> NoRet]
    /\ ops = [saves |-> 0, searches |-> 0, stops |-> 0]
    /\ history = << >>
    /\ inserted = << >>
    /\ startStore = store
    /\ unconsumed = NoFailure

NextConc ==
    \E t \in Threads :
        \/ t = "t1" /\ managers = 0 /\ NewCall(t)
        \/ NewConnect(t)
        \/ NewMigrate(t)
        \/ NewMaxId(t)
        \/ NewSeed(t)
        \/ \E in \in ConcSaveInputs :
               ops.saves < MaxSaves /\ SaveLogCall(t, 1, in.log, in.source)
        \/ SaveLogLock(t)
        \/ SaveLogConnect(t)
        \/ SaveLogModel(t)
        \/ SaveLogInsert(t)
        \/ \E in \in ConcSearchInputs :
               /\ ops.searches < MaxConcSearches
               /\ SearchCall(t, 1, in.source, in.pagination, in.content_search,
                             in.levels)
        \/ SearchConnect(t)
        \/ SearchCount(t)
        \/ SearchLoad(t)
        \/ ops.stops < MaxStops /\ Stop(t, 1)

SpecConc == InitConc /\ [][NextConc]_vars

(***************************************************************************)
(* Two threads using the first manager (save_log, search, stop) while a    *)
(* second manager may be constructed.                                      *)
(***************************************************************************)
NextOne ==
    \E t \in Threads :
        \/ managers <= 1 /\ Constructing = {} /\ NewCall(t)
        \/ NewConnect(t)
        \/ NewMigrate(t)
        \/ NewMaxId(t)
        \/ NewSeed(t)
        \/ \E in \in SaveInputs :
               ops.saves < MaxSaves /\ SaveLogCall(t, 1, in.log, in.source)
        \/ SaveLogLock(t)
        \/ SaveLogConnect(t)
        \/ SaveLogModel(t)
        \/ SaveLogInsert(t)
        \/ /\ ops.searches < MaxSeqSearches
           /\ SearchCall(t, 1, NoSource, NoPage, None, {})
        \/ SearchConnect(t)
        \/ SearchCount(t)
        \/ SearchLoad(t)
        \/ ops.stops < MaxStops /\ Stop(t, 1)

SpecOne == Init /\ [][NextOne]_vars

(***************************************************************************)
(* One thread constructs the manager and saves; when it is done the other  *)
(* searches without a filter.  The first thread's call record keeps what   *)
(* it saved.                                                               *)
(***************************************************************************)
RoundSaveInputs ==
    {[log |-> SimpleLog(Timestamp, l, Location, c), source |-> s] :
        l \in Levels, c \in {<<"a">>, <<Quote>>, <<Backslash, "b">>},
        s \in GoodSources}
    \cup {[log |-> SimpleLog(Timestamp, "Info", Location, <<"a">>),
           source |-> BadSource]}

NextRound ==
    \/ managers = 0 /\ NewCall("t1")
    \/ NewConnect("t1")
    \/ NewMigrate("t1")
    \/ NewMaxId("t1")
    \/ NewSeed("t1")
    \/ \E in \in RoundSaveInputs :
           /\ ~Searching
           /\ ops.saves < MaxSeqSaves
           /\ SaveLogCall("t1", 1, in.log, in.source)
    \/ SaveLogLock("t1")
    \/ SaveLogConnect("t1")
    \/ SaveLogModel("t1")
    \/ SaveLogInsert("t1")
    \/ /\ pc["t1"] = "idle"
       /\ ops.searches < MaxSeqSearches
       /\ SearchCall("t2", 1, NoSource, NoPage, None, {})
    \/ SearchConnect("t2")
    \/ SearchCount("t2")
    \/ SearchLoad("t2")

SpecRound == InitSeq /\ [][NextRound]_vars

(***************************************************************************)
(* Two threads saving through one manager, under fair scheduling: a thread *)
(* that can take a step of save_log takes it, and the Mutex (parking_lot's, *)
(* eventually fair) does not pass over a waiting thread for ever.          *)
(***************************************************************************)
NextSave ==
    \E t \in Threads :
        \/ t = "t1" /\ managers = 0 /\ NewCall(t)
        \/ NewConnect(t)
        \/ NewMigrate(t)
        \/ NewMaxId(t)
        \/ NewSeed(t)
        \/ \E in \in ConcSaveInputs :
               ops.saves < MaxSaves /\ SaveLogCall(t, 1, in.log, in.source)
        \/ SaveLogLock(t)
        \/ SaveLogConnect(t)
        \/ SaveLogModel(t)
        \/ SaveLogInsert(t)

FairSave ==
    \A t \in Threads :
        /\ SF_vars(SaveLogLock(t))
        /\ WF_vars(SaveLogConnect(t))
        /\ WF_vars(SaveLogModel(t))
        /\ WF_vars(SaveLogInsert(t))

SpecSave == InitConc /\ [][NextSave]_vars /\ FairSave

(***************************************************************************)
(* One thread on an empty table: it constructs managers and retries        *)
(* save_log after a failure.                                               *)
(***************************************************************************)
MaxRetrySaves == 3

InitRetry == Init /\ store = {}

NextRetry ==
    \/ managers < MaxManagers /\ NewCall("t1")
    \/ NewConnect("t1")
    \/ NewMigrate("t1")
    \/ NewMaxId("t1")
    \/ NewSeed("t1")
    \/ \E m \in 1 .. managers, in \in SaveInputs :
           ops.saves < MaxRetrySaves /\ SaveLogCall("t1", m, in.log, in.source)
    \/ SaveLogLock("t1")
    \/ SaveLogConnect("t1")
    \/ SaveLogModel("t1")
    \/ SaveLogInsert("t1")

SpecRetry == InitRetry /\ [][NextRetry]_vars

(***************************************************************************)
(* Properties.                                                             *)
(***************************************************************************)
Allocations == {i \in 1 .. Len(history) : history[i].kind = "alloc"}

Seeds == {i \in 1 .. Len(history) : history[i].kind = "seed"}

\* C1. Id monotonicity: every id save_log assigns is strictly greater than
\* every id assigned before it in the process, further constructions
\* included, and strictly greater than the max(id) a construction before it
\* read from the store.
IdMonotonicity ==
    \A j \in Allocations : \A i \in 1 .. (j - 1) :
        history[i].id < history[j].id

\* C2. Id uniqueness and no reuse: no two rows share an id, no id is handed
\* to two save_log calls of the process (so an id whose save failed is never
\* assigned again), and no assigned id is one that was durable at startup.
IdUniqueNoReuse ==
    /\ \A r, q \in store : r.id = q.id => r = q
    /\ \A i, j \in Allocations : history[i].id = history[j].id => i = j
    /\ \A i \in Allocations : history[i].id \notin Ids(startStore)

\* A thread working on the store under save_log, or running the migrations.
InFlight(t) ==
    pc[t] \in {"save_connect", "save_model", "save_insert", "new_migrate"}

\* C3. Write serialization: at most one save_log call or migration run is in
\* flight against the store at any moment, a second save_log waiting at the
\* lock until the first has returned.
WriteSerialization == Cardinality({t \in Threads : InFlight(t)}) <= 1

\* The step of save_log in which LogModel::from fails on a field.
SerializationFails(t) == pc[t] = "save_model" /\ pc'[t] = "idle"

\* The step of save_log that fetches an id.
Allocates(t) == pc[t] = "save_model" /\ pc'[t] # "save_model"

\* C9. A serialization failure in save_log returns that field's error,
\* inserts no row and still consumes the id: the save_log that allocates next
\* receives a strictly larger id.
SerializationFailureConsumesId ==
    [][\A t \in Threads :
          /\ SerializationFails(t) =>
                /\ ~ret'[t].ok
                /\ ret'[t].err = "SerializingField"
                /\ ret'[t].field = "source"
                /\ store' = store
                /\ NEXT_LOG_ID' = U32Add1(NEXT_LOG_ID)
          /\ (/\ Allocates(t)
              /\ Allocations # {}
              /\ LET last == CHOOSE i \in Allocations :
                                 \A j \in Allocations : j <= i
                 IN  ~history[last].ok)
             => LET last == CHOOSE i \in Allocations :
                                \A j \in Allocations : j <= i
                IN  history[last].id < AllocatedId(NEXT_LOG_ID)]_vars

\* The greatest id of the rows the process started on, 0 without rows.
StartMax == IF MaxId(startStore).some THEN MaxId(startStore).val ELSE 0

\* C10. Bootstrap seeding: a construction that read max(id) = m (0 on an
\* empty store) seeds the counter so that the first allocation after it
\* returns m + 1, and every later allocation returns the previous one plus
\* one, until the next construction.
BootstrapSeeding ==
    /\ \A j \in Allocations :
          /\ j > 1
          /\ IF history[j - 1].kind = "seed"
             THEN history[j].ctr = U32Add1(AsU32(history[j - 1].id))
             ELSE history[j].ctr = U32Add1(history[j - 1].ctr)
    /\ \A i \in Seeds :
          /\ history[i].id >= 0
          /\ inserted = << >> => history[i].id = StartMax

\* Two allocations have followed a construction over a non-empty store.
BootstrapSeedingWitness ==
    /\ Len(history) >= 3
    /\ history[1].kind = "seed" /\ history[1].id > 0
    /\ history[2].kind = "alloc" /\ history[3].kind = "alloc"

(***************************************************************************)
(* Properties of search.                                                   *)
(***************************************************************************)
\* The thread's last call was a search that returned Ok.
SearchDone(t) == pc[t] = "idle" /\ ret[t].op = "search" /\ ret[t].ok

ReturnedIds(t) == {ret[t].logs[i].id : i \in 1 .. Len(ret[t].logs)}

\* The result holds exactly the rows of `rows` that hydrate, each once and as
\* Log::from reads it.
ReturnsRows(t, rows) ==
    /\ ReturnedIds(t) = {r.id : r \in {q \in rows : LogFrom(q).ok}}
    /\ Len(ret[t].logs) = Cardinality(ReturnedIds(t))
    /\ \A i \in 1 .. Len(ret[t].logs) :
          \E r \in rows : ret[t].logs[i] = LogFrom(r).log

MatchesSource(r, c) ==
    c.has_source => r.source = SerializeSource(c.source).val

MatchesLevels(r, c) ==
    c.levels # {} => \E l \in c.levels : r.level = SerializeLevel(l)

MatchesLike(r, c) ==
    c.content_search.some
        => Like(<<"%">> \o c.content_search.val \o <<"%">>, r.content)

\* The rows the filter of call c selects, as the store evaluates it.
Matching(c) ==
    {r \in store : MatchesSource(r, c) /\ MatchesLevels(r, c) /\ MatchesLike(r, c)}

\* C4. Filter correctness for source and level: without pagination and content
\* term, search returns exactly the rows whose serialized source equals the
\* serialized filter source (if given) and whose level is in the level set
\* (if not empty), and counts them; an empty level set filters nothing.  A
\* matching row that does not hydrate is counted and not returned (C8).
FilterSourceLevel ==
    \A t \in Threads :
        (SearchDone(t) /\ ~call[t].pagination.some /\ ~call[t].content_search.some)
        => LET want == {r \in store : MatchesSource(r, call[t])
                                      /\ MatchesLevels(r, call[t])}
           IN  /\ ret[t].total_count = Cardinality(want)
               /\ ReturnsRows(t, want)

\* The example of C4: over (A, Info), (A, Debug), (B, Info) the search for
\* source A and level Info returned the first record alone, with count 1.
FilterSourceLevelWitness ==
    /\ SearchDone("t1")
    /\ store = {StoredRow(1, "SrcA", "Info", <<"a">>),
                StoredRow(2, "SrcA", "Debug", <<"b", "a">>),
                StoredRow(3, "SrcB", "Info", <<"A", "b">>)}
    /\ call["t1"].has_source /\ call["t1"].source = "SrcA"
    /\ call["t1"].levels = {"Info"}
    /\ ~call["t1"].pagination.some /\ ~call["t1"].content_search.some
    /\ ret["t1"].total_count = 1
    /\ ReturnedIds("t1") = {1}

\* An empty level set returned rows of several levels.
FilterEmptyLevelsWitness ==
    /\ SearchDone("t1")
    /\ call["t1"].levels = {} /\ ~call["t1"].has_source
    /\ ~call["t1"].pagination.some /\ ~call["t1"].content_search.some
    /\ \E i, j \in 1 .. Len(ret["t1"].logs) :
          ret["t1"].logs[i].level # ret["t1"].logs[j].level

\* term occurs in text, letter case aside.
ContainsLiteral(text, term) ==
    \E i \in 1 .. (Len(text) - Len(term) + 1) :
        \A k \in 1 .. Len(term) : Fold(text[i + k - 1]) = Fold(term[k])

\* The content the caller gave save_log for a row.
CallerContent(r) ==
    IF DeserializeString(r.content).ok
    THEN DeserializeString(r.content).val ELSE r.content

\* C5. The content filter is a literal substring match: with a non-empty term
\* search returns exactly the rows (matching the other filters) whose
\* caller-supplied content contains the term; an absent or empty term
\* filters nothing.
ContentLiteralSubstring ==
    \A t \in Threads :
        (SearchDone(t) /\ ~call[t].pagination.some)
        => LET term == call[t].content_search
               want == {r \in store :
                           /\ MatchesSource(r, call[t])
                           /\ MatchesLevels(r, call[t])
                           /\ (term.some /\ term.val # << >>)
                                 => ContainsLiteral(CallerContent(r), term.val)}
           IN  /\ ret[t].total_count = Cardinality(want)
               /\ ReturnsRows(t, want)

\* C7. total_count is the number of stored rows the filter selects, whatever
\* the pagination and whether or not the rows hydrate.
TotalCountIndependent ==
    \A t \in Threads :
        SearchDone(t) => ret[t].total_count = Cardinality(Matching(call[t]))

\* A paged search counted more rows than a page holds, one of them a row
\* that does not hydrate.
TotalCountIndependentWitness ==
    /\ SearchDone("t1")
    /\ call["t1"].pagination.some
    /\ ret["t1"].total_count > call["t1"].pagination.val.page_size
    /\ ret["t1"].total_count > Len(ret["t1"].logs)
    /\ \E r \in Matching(call["t1"]) : ~LogFrom(r).ok

\* C8. Partial-failure tolerance: of N matching rows of which M do not
\* hydrate, a search without pagination returns the N - M that do, in the
\* order of the scan, with total_count = N and the M failures in one
\* warning; no error of search is a hydration error.
PartialFailureTolerance ==
    \A t \in Threads :
        /\ (SearchDone(t) /\ ~call[t].pagination.some)
           => LET match == Matching(call[t])
                  good  == {r \in match : LogFrom(r).ok}
              IN  /\ ret[t].total_count = Cardinality(match)
                  /\ Len(ret[t].logs) = Cardinality(good)
                  /\ ReturnsRows(t, match)
                  /\ \A i, j \in 1 .. Len(ret[t].logs) :
                        i < j => ret[t].logs[i].id < ret[t].logs[j].id
                  /\ Len(ret[t].errors) = Cardinality(match) - Cardinality(good)
        /\ (ret[t].op = "search" /\ ~ret[t].ok)
           => ret[t].err \in {"DieselConnection", "DieselResult", "SerializingField"}

\* A search matched several rows, dropped one that does not hydrate and
\* returned the others.
PartialFailureToleranceWitness ==
    /\ SearchDone("t1")
    /\ ~call["t1"].pagination.some
    /\ Len(ret["t1"].errors) >= 1
    /\ Len(ret["t1"].logs) >= 2
    /\ ret["t1"].total_count = Len(ret["t1"].logs) + Len(ret["t1"].errors)

\* The row of an id.
RowOf(id) == CHOOSE r \in store : r.id = id

\* The ids of the rows in the order they were inserted: the rows of earlier
\* runs (by id), then the rows of this process.
InsertionOrder ==
    [i \in 1 .. Cardinality(startStore) |-> SortedById(startStore)[i].id]
    \o inserted

\* The rows call c selects, in insertion order.
MatchingInInsertionOrder(c) ==
    LET Selects(id) == RowOf(id) \in Matching(c)
        ids == SelectSeq(InsertionOrder, Selects)
    IN  [i \in 1 .. Len(ids) |-> RowOf(ids[i])]

\* rows[(p - 1) * k : p * k].
PageSlice(rows, p, k) ==
    SubSeq(rows, (p - 1) * k + 1, IF p * k < Len(rows) THEN p * k ELSE Len(rows))

\* C6. Pagination correctness: with no concurrent write, page p of size k is
\* all_matching_rows[(p - 1) * k : p * k], the matching rows taken in
\* insertion order.
PaginationInsertionOrder ==
    \A t \in Threads :
        (SearchDone(t) /\ call[t].pagination.some)
        => ret[t].logs =
              Hydrated(PageSlice(MatchingInInsertionOrder(call[t]),
                                 call[t].pagination.val.page,
                                 call[t].pagination.val.page_size))

\* What holds of the pages instead: they are slices of the matching rows in
\* ascending id.
PaginationIdOrder ==
    \A t \in Threads :
        (SearchDone(t) /\ call[t].pagination.some)
        => ret[t].logs =
              Hydrated(PageSlice(SortedById(Matching(call[t])),
                                 call[t].pagination.val.page,
                                 call[t].pagination.val.page_size))

(***************************************************************************)
(* Properties of construction, of the stored ids and of the lock.          *)
(***************************************************************************)
\* The step of LogManager::new that reads max(id), the read being negative.
ReadsNegativeMax(t) ==
    /\ pc[t] = "new_max_id" /\ pc'[t] # "new_max_id"
    /\ MaxId(store).some /\ MaxId(store).val < 0

\* C11. Corrupt bootstrap is fatal: a construction that reads a negative
\* max(id) returns an error, produces no LogManager and does not re-seed the
\* counter; no seed was ever computed from a negative max(id).
CorruptBootstrapFatal ==
    [][/\ \A t \in Threads :
             ReadsNegativeMax(t) =>
                /\ pc'[t] = "idle"
                /\ ret'[t].op = "new" /\ ~ret'[t].ok
                /\ managers' = managers
                /\ NEXT_LOG_ID' = NEXT_LOG_ID
                /\ history' = history
       /\ \A i \in 1 .. Len(history') :
             history'[i].kind = "seed" => history'[i].id >= 0]_vars

\* A construction over a store whose greatest id is negative has failed on
\* the sign check, leaving no manager and the counter as it was.
CorruptBootstrapFatalWitness ==
    \E t \in Threads :
        /\ pc[t] = "idle" /\ ret[t].op = "new" /\ ~ret[t].ok
        /\ ret[t].err = "NegativeLogID" /\ ret[t].id < 0
        /\ managers = 0 /\ NEXT_LOG_ID = U32Zero /\ history = << >>

\* C12. No negative id is ever persisted: from a bootstrap over rows with
\* non-negative ids, every row save_log wrote has a non-negative id, which
\* as a number is the unsigned counter value fetched for it.
NoNegativeIdPersisted ==
    (\A r \in startStore : r.id >= 0)
    => \A r \in store \ startStore :
          /\ r.id >= 0
          /\ \E i \in Allocations :
                history[i].id = r.id /\ history[i].ctr = U32(0, r.id)

\* A thread past the lock of save_log and not yet returned.
UnderLock(t) == pc[t] \in {"save_connect", "save_model", "save_insert"}

\* C13, as claimed. The write lock is held only for the duration of the
\* insert: not while the connection is opened, the id allocated or the
\* fields serialized.
LockOnlyDuringInsert ==
    \A m \in ManagerIds :
        internal_lock[m] # NoThread => pc[internal_lock[m]] = "save_insert"

\* C13, amended. The counter needs no lock of its own, but save_log holds
\* its manager's lock from before the connection is opened until it returns:
\* an id is allocated only by the holder of its manager's lock, while no
\* other save_log of that manager is past the lock.
AllocationUnderLock ==
    [][\A t \in Threads :
          /\ UnderLock(t) => internal_lock[call[t].mgr] = t
          /\ Allocates(t) =>
                \A u \in Threads \ {t} :
                    (UnderLock(u) /\ call[u].op = "save_log")
                    => call[u].mgr # call[t].mgr]_vars

\* Two save_log calls of two managers have both allocated their ids, each
\* holding its own manager's lock.
AllocationUnderLockWitness ==
    /\ pc["t1"] = "save_insert" /\ pc["t2"] = "save_insert"
    /\ call["t1"].mgr # call["t2"].mgr
    /\ internal_lock[call["t1"].mgr] = "t1"
    /\ internal_lock[call["t2"].mgr] = "t2"

\* A thread inside search.
InSearch(t) == pc[t] \in {"search_connect", "search_count", "search_load"}

\* C14. search never takes the write lock: whatever the lock's state, a search
\* can start and every search in flight can take its next step, and no
\* thread inside search holds a lock.
SearchNeverTakesLock ==
    \A t \in Threads :
        /\ (pc[t] = "idle" /\ managers >= 1)
              => ENABLED SearchCall(t, 1, NoSource, NoPage, None, {})
        /\ InSearch(t)
              => /\ ENABLED (SearchConnect(t) \/ SearchCount(t) \/ SearchLoad(t))
                 /\ \A m \in ManagerIds : internal_lock[m] # t

\* A search that started while the one save_log of the run held the lock has
\* returned, the save_log still holding the lock.
SearchNeverTakesLockWitness ==
    \E t, u \in Threads :
        /\ SearchDone(t) /\ call[t].held
        /\ ops.saves = 1 /\ UnderLock(u) /\ internal_lock[call[t].mgr] = u

\* Two searches are in flight at once.
SearchesInFlightTogether == \A t \in Threads : pc[t] = "search_load"

\* C15. stop is advisory: a stop() sets its manager's flag and changes
\* nothing else of the program (the caller's own call record aside); a flag
\* once set stays set; and with the flag set every save_log and search step
\* is as enabled as without it: a call can start, a save_log waits for the
\* lock only, and a call in flight can go on.
StopAdvisory ==
    [][/\ \A m \in ManagerIds : stop[m] => stop'[m]
       /\ ops'.stops # ops.stops =>
             /\ \E m \in 1 .. managers : stop' = [stop EXCEPT ![m] = TRUE]
             /\ UNCHANGED <<NEXT_LOG_ID, store, managers, internal_lock, pc,
                            local, history, inserted, startStore, unconsumed>>
       /\ stop' # stop => ops'.stops # ops.stops
       /\ \A t \in Threads :
             (\E m \in ManagerIds : stop[m]) =>
                /\ pc[t] = "idle" =>
                      /\ ENABLED SearchCall(t, 1, NoSource, NoPage, None, {})
                      /\ ENABLED SaveLogCall(t, 1, NoLog, "SrcA")
                /\ (pc[t] = "save_lock" /\ internal_lock[call[t].mgr] = NoThread)
                      => ENABLED SaveLogLock(t)
                /\ UnderLock(t) =>
                      ENABLED (SaveLogConnect(t) \/ SaveLogModel(t)
                               \/ SaveLogInsert(t))
                /\ InSearch(t) =>
                      ENABLED (SearchConnect(t) \/ SearchCount(t)
                               \/ SearchLoad(t))]_vars

\* With the flag set by its own earlier stop(), a thread has saved a row: the
\* other thread has called nothing but the construction.
StopAdvisoryWitness ==
    \E u \in Threads :
        /\ stop[1]
        /\ pc[u] = "idle" /\ ret[u].op = "save_log" /\ ret[u].ok
        /\ ret[u].id \in Ids(store)
        /\ \A t \in Threads \ {u} : call[t].op \in {"none", "new"}

\* The step in which save_log returns Ok.
SaveSucceeds(t) ==
    pc[t] = "save_insert" /\ pc'[t] = "idle" /\ ret'[t].ok

\* C16. Append-only store: every row stays in the store as it is; the store
\* changes only in the step in which a save_log returns Ok, and that step adds
\* exactly one row, the one the call built; a save_log that returns an error
\* adds nothing.
AppendOnly ==
    [][/\ store \subseteq store'
       /\ store' # store => \E t \in Threads : SaveSucceeds(t)
       /\ \A t \in Threads :
             SaveSucceeds(t) =>
                /\ local[t].row \notin store
                /\ store' = store \cup {local[t].row}
                /\ Cardinality(store') = Cardinality(store) + 1
                /\ ret'[t].rows_affected = 1]_vars

\* The store has grown by a row on top of the rows it started with, and an
\* insert of an id already in the table has been refused.
AppendOnlyWitness ==
    /\ startStore # {} /\ startStore \subseteq store /\ store # startStore
    /\ \E t \in Threads :
          pc[t] = "idle" /\ ret[t].op = "save_log"
          /\ ret[t].field = "UniqueViolation"

\* The Log a save_log call's arguments make, under the id it was given.
SavedLog(t) ==
    [id |-> ret[t].id, source |-> call[t].source,
     timestamp |-> call[t].log.timestamp, level |-> call[t].log.level,
     location |-> call[t].log.location, content |-> call[t].log.content]

\* The last allocation of the history.
LastAllocation == CHOOSE i \in Allocations : \A j \in Allocations : j <= i

\* C17. Save/search round trip: every source that serializes and each of the
\* five levels deserializes back to itself, and the record of a successful
\* save_log comes back from an unfiltered search as a Log with the saved
\* source, timestamp, level, location and content under the id allocated for
\* that save.
SaveSearchRoundTrip ==
    /\ \A s \in GoodSources :
          DeserializeSource(SerializeSource(s).val) = [ok |-> TRUE, val |-> s]
    /\ \A l \in Levels :
          DeserializeLevel(SerializeLevel(l)) = [ok |-> TRUE, val |-> l]
    /\ (SearchDone("t2") /\ ret["t1"].op = "save_log" /\ ret["t1"].ok)
          => /\ ret["t1"].id = history[LastAllocation].id
             /\ \E i \in 1 .. Len(ret["t2"].logs) :
                   ret["t2"].logs[i] = SavedLog("t1")
             /\ \A i \in 1 .. Len(ret["t2"].logs) :
                   ret["t2"].logs[i].id = ret["t1"].id
                      => ret["t2"].logs[i] = SavedLog("t1")

\* A record whose content holds a backslash was saved on top of other rows
\* and has come back from the search.
SaveSearchRoundTripWitness ==
    /\ SearchDone("t2") /\ ret["t1"].op = "save_log" /\ ret["t1"].ok
    /\ call["t1"].log.content = <<Backslash, "b">>
    /\ call["t1"].log.level = "Warn" /\ call["t1"].source = "SrcB"
    /\ Len(ret["t2"].logs) >= 2
    /\ \E i \in 1 .. Len(ret["t2"].logs) : ret["t2"].logs[i] = SavedLog("t1")

\* The step in which the INSERT of save_log meets an id that is in the table.
InsertRefused(t) ==
    pc[t] = "save_insert" /\ pc'[t] = "idle"
    /\ ret'[t].field = "UniqueViolation"

\* C18. Insert order follows id order: with every save_log going through one
\* manager, a row that is inserted has an id greater than every id in the
\* store, so the rows of the process were inserted in ascending id, and no
\* INSERT is refused because a row written through that manager has its id.
InsertOrderFollowsIdOrder ==
    [][\A t \in Threads :
          /\ SaveSucceeds(t) => \A r \in store : r.id < local[t].row.id
          /\ InsertRefused(t) => local[t].row.id \notin Ids(store \ startStore)]_vars

\* The step in which a search without pagination returns Ok, every loaded
\* row having hydrated.
LoadsAll(t) ==
    /\ pc[t] = "search_load" /\ pc'[t] = "idle" /\ ret'[t].ok
    /\ ~call[t].pagination.some
    /\ ret'[t].errors = << >>

\* The rows call c selects that were inserted after the count of t's search.
InsertedSinceCount(t) ==
    {i \in (local[t].counted_at + 1) .. Len(inserted) :
        RowOf(inserted[i]) \in Matching(call[t])}

\* C19. Count/select skew is one-sided: a search without pagination, run
\* while save_log calls insert and with every row hydrating, returns a
\* total_count that is not greater than the number of rows returned, and
\* smaller by exactly the matching rows inserted between the count and the
\* select.
CountSelectSkew ==
    [][\A t \in Threads :
          LoadsAll(t) =>
             /\ ret'[t].total_count <= Len(ret'[t].logs)
             /\ Len(ret'[t].logs)
                   = ret'[t].total_count + Cardinality(InsertedSinceCount(t))]_vars

\* A filtered search over a store with rows it does not select has returned
\* one row more than it counted.
CountSelectSkewWitness ==
    \E t \in Threads :
        /\ SearchDone(t) /\ ~call[t].pagination.some /\ ret[t].errors = << >>
        /\ call[t].has_source
        /\ Cardinality(store) > Len(ret[t].logs)
        /\ ret[t].total_count >= 1
        /\ Len(ret[t].logs) = ret[t].total_count + 1

\* A manager's lock is held by a thread inside save_log on that manager.
LockHeldBySaver ==
    \A m \in ManagerIds :
        internal_lock[m] # NoThread
        => /\ UnderLock(internal_lock[m])
           /\ call[internal_lock[m]].op = "save_log"
           /\ call[internal_lock[m]].mgr = m

\* A thread that is not inside save_log holds no lock.
NoLockOutsideSave ==
    \A t \in Threads :
        ~UnderLock(t) => \A m \in ManagerIds : internal_lock[m] # t

\* C20. Lock release and progress: the write lock is held only by a save_log
\* in progress and is free again when that call has returned, whichever way
\* it returned; under fair scheduling every save_log that has started
\* returns.
LockReleaseAndProgress ==
    /\ [](LockHeldBySaver /\ NoLockOutsideSave)
    /\ \A t \in Threads :
          (pc[t] = "save_lock") ~> (pc[t] = "idle" /\ ret[t].op = "save_log")

\* A save_log has returned an error, and the other thread has taken the lock
\* after it.
LockReleaseAndProgressWitness ==
    \E t, u \in Threads :
        /\ pc[t] = "idle" /\ ret[t].op = "save_log" /\ ~ret[t].ok
        /\ internal_lock[1] = u /\ UnderLock(u)
        /\ Len(history) >= 2 /\ history[Len(history)].kind = "alloc"
        /\ pc[u] = "save_connect"

\* The step of save_log in which establish_connection fails.
ConnectionFails(t) == pc[t] = "save_connect" /\ pc'[t] = "idle"

\* C21. A connection failure consumes no id: a save_log that fails to open
\* its connection returns the connection error and leaves the id counter and
\* the stored rows as they were, and the save_log that is given an id next
\* receives the id the failed call would have received.
ConnectionFailureConsumesNoId ==
    [][\A t \in Threads :
          /\ ConnectionFails(t) =>
                /\ ~ret'[t].ok
                /\ ret'[t].err = "DieselConnection"
                /\ NEXT_LOG_ID' = NEXT_LOG_ID
                /\ store' = store
          /\ (Allocates(t) /\ unconsumed.some) =>
                history'[Len(history')].id = AllocatedId(unconsumed.val)]_vars

====
